---------------------------- MODULE Spec2Model ----------------------------
(***************************************************************************)
(* swisher: the request handler (reqs.rs), the versioned directory store   *)
(* (dir.rs), the temporary files (temp.rs) and the streaming codec         *)
(* (hyper_files.rs), as a state machine over the files of the storage      *)
(* root.  Every await of a handler is one step of the task that runs it.   *)
(* The signal handler and the shutdown channel of main.rs are part of the  *)
(* state; the functions of users.rs, sig.rs and bucket.rs are operators.   *)
(***************************************************************************)
EXTENDS Integers, Sequences, FiniteSets, TLC

(***************************************************************************)
(* Bounds of the model.                                                    *)
(***************************************************************************)
MaxPuts == 2        \* PUT requests accepted in one behaviour

Tasks == {1, 2}     \* the requests the runtime serves at the same time
Keys == {"k1"}      \* object keys (the path of the request)
Cands == {1, 2}     \* the values rand::random() yields for a temp name
\* request bodies, as the chunks body.data() yields: no chunk, an empty chunk
\* before the only byte, two chunks of one byte
Bodies == {<<>>, <<<<>>, <<1>>>>, <<<<1>>, <<2>>>>}

\* the absence of a file (ENOENT) and of a value (None), as records, so that
\* they compare with the records files and values are
NoFile == [enoent |-> TRUE]
Null == [none |-> TRUE]
Some(value) == [some |-> value]

(***************************************************************************)
(* Pure functions of the codec.                                            *)
(***************************************************************************)
RECURSIVE Flatten(_)
Flatten(frames) ==
    IF frames = <<>> THEN <<>> ELSE Head(frames) \o Flatten(Tail(frames))

\* md5::Md5::default() and md5.input(&data): a running digest over the bytes
Md5Default == 7

RECURSIVE Md5Input(_, _)
Md5Input(h, data) ==
    IF data = <<>> THEN h ELSE Md5Input((h * 31 + Head(data)) % 251, Tail(data))

\* base64::encode(&md5.fixed_result())
Base64 == [h \in 0..250 |-> <<"b64", h>>]

\* the content_md5_base64 of a payload
Md5Base64(data) == Base64[Md5Input(Md5Default, data)]

\* the content checksum zstd appends to the frame (include_checksum(true))
RECURSIVE Checksum(_)
Checksum(data) ==
    IF data = <<>> THEN 1 ELSE (Checksum(Tail(data)) * 3 + Head(data)) % 17

\* a file the encoder writes to: the compressed blocks written so far, the
\* frame footer once enc.finish() has been written (-1 before that), and the
\* PUT request that created the file
CreatedFile(put) == [frames |-> <<>>, sum |-> -1, by |-> put]

\* what stream_unpack sends for a file: the decoded bytes, or UnexpectedEof
\* when the frame is cut short
stream_unpack(file) ==
    LET data == Flatten(file.frames)
    IN  IF file.sum = Checksum(data)
        THEN [ok |-> TRUE, data |-> data]
        ELSE [ok |-> FALSE, data |-> data]

(***************************************************************************)
(* users.rs: access keys.  A string is the sequence of its characters; a   *)
(* character of the URL-safe base64 alphabet is its index there (A-Z 0-25, *)
(* a-z 26-51, 0-9 52-61, '-' 62, '_' 63), and NotB64 is any other one.     *)
(***************************************************************************)
NotB64 == 64
CharS == 18         \* 'S'
Char1 == 53         \* '1'
Char2 == 54         \* '2'

ACCESS_KEY_LEN == 30

\* base64::encode_config(values, URL_SAFE_NO_PAD)
RECURSIVE pack(_)
pack(values) ==
    IF Len(values) = 0 THEN <<>>
    ELSE IF Len(values) = 1
    THEN <<values[1] \div 4, (values[1] % 4) * 16>>
    ELSE IF Len(values) = 2
    THEN <<values[1] \div 4,
           (values[1] % 4) * 16 + values[2] \div 16,
           (values[2] % 16) * 4>>
    ELSE <<values[1] \div 4,
           (values[1] % 4) * 16 + values[2] \div 16,
           (values[2] % 16) * 4 + values[3] \div 64,
           values[3] % 64>>
         \o pack(SubSeq(values, 4, Len(values)))

\* the bytes of a string of alphabet characters
RECURSIVE Decode(_)
Decode(value) ==
    IF Len(value) = 0 THEN <<>>
    ELSE IF Len(value) = 2
    THEN <<value[1] * 4 + value[2] \div 16>>
    ELSE IF Len(value) = 3
    THEN <<value[1] * 4 + value[2] \div 16,
           (value[2] % 16) * 16 + value[3] \div 4>>
    ELSE <<value[1] * 4 + value[2] \div 16,
           (value[2] % 16) * 16 + value[3] \div 4,
           (value[3] % 4) * 64 + value[4]>>
         \o Decode(SubSeq(value, 5, Len(value)))

\* base64::decode_config(value, URL_SAFE_NO_PAD).ok(): None for a character
\* outside the alphabet, for a length of 4n+1, and for trailing bits set
unpack(value) ==
    IF \E i \in 1..Len(value) : value[i] \notin 0..63 THEN Null
    ELSE IF Len(value) % 4 = 1 THEN Null
    ELSE IF Len(value) % 4 = 2 /\ value[Len(value)] % 16 # 0 THEN Null
    ELSE IF Len(value) % 4 = 3 /\ value[Len(value)] % 4 # 0 THEN Null
    ELSE Some(Decode(value))

\* MasterKey::new: the ids are those of the seeds "" and "a" (users.rs:80-81)
MasterKeys ==
    {[seed |-> "", id |-> <<187, 84, 139>>],
     [seed |-> "a", id |-> <<246, 204, 108>>]}

\* a key with all 8 bytes of the random u64
access_key_of_u64(self, role_id, random) ==
    <<CharS, Char1>> \o pack(self.id \o role_id \o random)

\* access_key_for: id, role id, and the low 6 bytes of a random u64
access_key_for(self, role_id, random) ==
    <<CharS, Char1>> \o pack(self.id \o role_id \o SubSeq(random, 1, 6))

\* a parse that looks at the prefix before the length
parse_access_prefix_first(self, key) ==
    IF SubSeq(key, 1, 2) # <<CharS, Char1>> THEN [err |-> "invalid format / version"]
    ELSE IF ACCESS_KEY_LEN # Len(key) THEN [err |-> "invalid length"]
    ELSE LET decoded == unpack(SubSeq(key, 3, Len(key)))
         IN  IF decoded = Null THEN [err |-> "invalid encoding"]
             ELSE IF SubSeq(decoded.some, 1, 3) # self.id
             THEN [err |-> "not issued by us"]
             ELSE [ok |-> SubSeq(decoded.some, 4, 15)]

\* parse_access
parse_access(self, key) ==
    IF ACCESS_KEY_LEN # Len(key) THEN [err |-> "invalid length"]
    ELSE IF SubSeq(key, 1, 2) # <<CharS, Char1>> THEN [err |-> "invalid format / version"]
    ELSE LET decoded == unpack(SubSeq(key, 3, Len(key)))
         IN  IF decoded = Null THEN [err |-> "invalid encoding"]
             ELSE IF SubSeq(decoded.some, 1, 3) # self.id
             THEN [err |-> "not issued by us"]
             ELSE [ok |-> SubSeq(decoded.some, 4, 15)]

\* secret_key_for: pack(mac(key, access_key)), the mac as its arguments
secret_key_for(self, access_key) == <<"mac", self.seed, access_key>>

(***************************************************************************)
(* sig.rs: validate.  A header map is a function from header names to      *)
(* values.  The value of x-amz-date is what parse_from_str makes of it: a  *)
(* day and a time of day, or a parse error.  The value of authorization is *)
(* whether it starts with "AWS4-HMAC-SHA256 " and what split_auth makes of *)
(* the rest: the captured fields, None, or the panic of line 129 when the  *)
(* eight digits of the Credential are no day of the calendar.  A date is a *)
(* number of days.                                                         *)
(***************************************************************************)
Invalid == [tag |-> "Invalid"]
Unsupported == [tag |-> "Unsupported"]
Anonymous(headers) == [tag |-> "Anonymous", headers |-> headers]
Valid(access_key, headers) ==
    [tag |-> "Valid", access_key |-> access_key, headers |-> headers]

\* split_auth, line 129: parse_from_str(..).expect("regex checked date") on
\* eight digits such as 20201399, which HEADER_REGEX lets through
RegexCheckedDate == [panic |-> "regex checked date"]

\* validate does not return: the panic unwinds the task of the request
Panicked == [tag |-> "panic"]

\* HashMap::remove
Remove(headers, name) == [n \in DOMAIN headers \ {name} |-> headers[n]]

\* lines 92-101: each signed header is removed from the request's map and
\* put into the clean map; None when one is not (or no longer) there
RECURSIVE CleanHeaders(_, _, _)
CleanHeaders(signed_headers, headers, clean_headers) ==
    IF signed_headers = <<>> THEN clean_headers
    ELSE LET header == Head(signed_headers)
         IN  IF header \notin DOMAIN headers THEN Null
             ELSE CleanHeaders(Tail(signed_headers), Remove(headers, header),
                               [n \in DOMAIN clean_headers \cup {header} |->
                                   IF n = header THEN headers[header]
                                   ELSE clean_headers[n]])

\* AWSAuth::signature(): the HMAC chain over the canonical request, as the
\* values it is computed from (payload hash: that of the empty payload)
Signature(url, method, date, access_key, secret, canonical_headers) ==
    [url |-> url, method |-> method, date |-> date, access_key |-> access_key,
     secret |-> secret, region |-> "us-east-1", headers |-> canonical_headers]

\* [a-f0-9]{64} of HEADER_REGEX: the characters of a signature
SignatureLen == 64

\* the first position at which two strings of one length differ, 0 for none
FirstDifference(a, b) ==
    IF a = b THEN 0
    ELSE CHOOSE i \in 1..Len(a) : a[i] # b[i] /\ \A j \in 1..(i - 1) : a[j] = b[j]

\* line 106, parts.signature != war: the != of String is a test of the
\* lengths and a memcmp, which reads the two strings `width` bytes at a
\* time (a width of the build) and stops at the first that differ;
\* `compared` is the number of bytes read
str_ne(a, b, width) ==
    IF Len(a) # Len(b) THEN [ne |-> TRUE, compared |-> 0]
    ELSE LET first == FirstDifference(a, b)
             read == ((first + width - 1) \div width) * width
         IN  IF first = 0 THEN [ne |-> FALSE, compared |-> Len(a)]
             ELSE [ne |-> TRUE, compared |-> IF read > Len(a) THEN Len(a) ELSE read]

\* a skew taken from the instant `now`, in whole days
SkewDaysOfInstant(valid_date, now) ==
    LET seconds == valid_date * 86400 - (now.day * 86400 + now.secs)
    IN  IF seconds < 0 THEN (0 - seconds) \div 86400 ELSE seconds \div 86400

\* lines 67-72: |valid_date - now.date()| in days
SkewDays(valid_date, now) ==
    IF valid_date - now.day < 0 THEN now.day - valid_date ELSE valid_date - now.day

\* a validate that returns the header map of the request
validateUncleaned(url, secret_key, now, headers, method) ==
    IF "authorization" \notin DOMAIN headers THEN Anonymous(headers)
    ELSE IF "x-amz-date" \notin DOMAIN headers THEN Invalid
    ELSE IF ~headers["x-amz-date"].ok THEN Invalid
    ELSE IF ~headers["authorization"].v4 THEN Unsupported
    ELSE IF headers["authorization"].fields = RegexCheckedDate THEN Panicked
    ELSE IF headers["authorization"].fields = Null THEN Invalid
    ELSE LET parts == headers["authorization"].fields
             date == headers["x-amz-date"]
             clean_headers == CleanHeaders(parts.signed_headers, headers,
                                           [n \in {} |-> Null])
         IN  IF SkewDays(parts.valid_date, now) > 2 THEN Invalid
             ELSE IF parts.region # "us-east-1" \/ parts.service # "s3" THEN Unsupported
             ELSE IF clean_headers = Null THEN Invalid
             ELSE IF parts.signature #
                         Signature(url, method, date, parts.access_key,
                                   secret_key[parts.access_key], clean_headers)
                  THEN Invalid
             ELSE Valid(parts.access_key, headers)

validate(url, secret_key, now, headers, method) ==
    IF "authorization" \notin DOMAIN headers THEN Anonymous(headers)
    ELSE IF "x-amz-date" \notin DOMAIN headers THEN Invalid
    ELSE IF ~headers["x-amz-date"].ok THEN Invalid
    ELSE IF ~headers["authorization"].v4 THEN Unsupported
    ELSE IF headers["authorization"].fields = RegexCheckedDate THEN Panicked
    ELSE IF headers["authorization"].fields = Null THEN Invalid
    ELSE LET parts == headers["authorization"].fields
             date == headers["x-amz-date"]
             clean_headers == CleanHeaders(parts.signed_headers, headers,
                                           [n \in {} |-> Null])
         IN  IF SkewDays(parts.valid_date, now) > 2 THEN Invalid
             ELSE IF parts.region # "us-east-1" \/ parts.service # "s3" THEN Unsupported
             ELSE IF clean_headers = Null THEN Invalid
             ELSE IF parts.signature #
                         Signature(url, method, date, parts.access_key,
                                   secret_key[parts.access_key], clean_headers)
                  THEN Invalid
             ELSE Valid(parts.access_key, clean_headers)

(***************************************************************************)
(* bucket.rs and reqs.rs: bucket names.  A host, a path and a name are the *)
(* sequences of their characters; an object key is one character of a path.*)
(***************************************************************************)
\* char::is_ascii_lowercase and char::is_ascii_digit
AsciiLowercase ==
    {"a", "b", "c", "d", "e", "f", "g", "h", "i", "j", "k", "l", "m",
     "n", "o", "p", "q", "r", "s", "t", "u", "v", "w", "x", "y", "z"}

AsciiDigit == {"0", "1", "2", "3", "4", "5", "6", "7", "8", "9"}

\* alnum: a lower case ASCII letter or a digit
alnum(c) == c \in AsciiLowercase \/ c \in AsciiDigit

\* a valid_bucket_name that does not look for ".."
valid_bucket_name_with_dots(name) ==
    IF Len(name) < 3 \/ Len(name) > 63 THEN FALSE
    ELSE IF ~alnum(name[1]) \/ ~alnum(name[Len(name)]) THEN FALSE
    ELSE \A i \in 1..Len(name) : alnum(name[i]) \/ name[i] \in {".", "-"}

\* valid_bucket_name
valid_bucket_name(name) ==
    IF Len(name) < 3 \/ Len(name) > 63 THEN FALSE
    ELSE IF ~alnum(name[1]) \/ ~alnum(name[Len(name)]) THEN FALSE
    ELSE IF ~(\A i \in 1..Len(name) : alnum(name[i]) \/ name[i] \in {".", "-"}) THEN FALSE
    ELSE IF \E i \in 1..(Len(name) - 1) : name[i] = "." /\ name[i + 1] = "." THEN FALSE
    ELSE TRUE

\* str::find, as the index of the first occurrence, 0 for None
Find(str, c) ==
    IF \E i \in 1..Len(str) : str[i] = c
    THEN CHOOSE i \in 1..Len(str) : str[i] = c /\ \A j \in 1..(i - 1) : str[j] # c
    ELSE 0

\* a first_dns_part that does not ask for a second part
first_dns_part_alone(host) ==
    IF Find(host, ".") = 0 THEN Some(host)
    ELSE Some(SubSeq(host, 1, Find(host, ".") - 1))

\* first_dns_part: the part before the first '.', when there is a second part
first_dns_part(host) ==
    IF Find(host, ".") = 0 THEN Null
    ELSE Some(SubSeq(host, 1, Find(host, ".") - 1))

\* first_path_part: path[1..] is split at its first '/'
first_path_part(path) ==
    LET end == Find(SubSeq(path, 2, Len(path)), "/")
    IN  IF end = 0 THEN Null
        ELSE Some([bucket |-> SubSeq(path, 2, end), path |-> SubSeq(path, end + 1, Len(path))])

\* bucket_name
bucket_name(host_header, path) ==
    LET dns == IF host_header = Null THEN Null ELSE first_dns_part(host_header.some)
    IN  IF dns # Null THEN Some([bucket |-> dns.some, path |-> path])
        ELSE first_path_part(path)

(***************************************************************************)
(* State.                                                                  *)
(***************************************************************************)
VARIABLES
    task,       \* per task: the request it serves and the locals of its handler
    meta,       \* per key: the FileMeta document at <path>.meta, or NoFile
    blob,       \* per key and version: the file at <path>.<n>, or NoFile
    tmpRoot,    \* the files ./.<cand>.tmp of the storage root
    tmpDir,     \* per key: the files .<cand>.tmp of the key's directory
    held,       \* the metadata locks that are held
    now,        \* Utc::now(), as a logical clock
    puts,       \* PUT requests accepted so far
    hist,       \* history: what the claims speak about
    server,     \* main.rs: the signal handler's sender, the shutdown channel
    call        \* a call of a pure function: its arguments and its result

vars == <<task, meta, blob, tmpRoot, tmpDir, held, now, puts, hist, server, call>>

Versions == 0..(MaxPuts - 1)

\* mpsc::channel::<()>(1)
ChannelCapacity == 1

\* main.rs:105-107 attempt_shutdown: try_send; a full channel refuses
try_send(chan) == IF chan < ChannelCapacity THEN chan + 1 ELSE chan

\* main.rs:50-62 at the start of the process: the handler holds its sender,
\* the channel is empty, the server serves
Started ==
    [on_signal |-> TRUE, chan |-> 0, state |-> "serving",
     sent |-> 0, ignored |-> FALSE, shutdowns |-> 0]

IdleTask ==
    [pc |-> "idle", method |-> "-", key |-> "-", body |-> <<>>, put |-> 0,
     fed |-> 0, length |-> 0, md5 |-> Md5Default, enc |-> <<>>,
     temp |-> 0, content |-> Null,
     new_version |-> 0, data |-> Null, modified |-> 0, meta_temp |-> 0,
     got |-> Null, status |-> 0, err |-> "-", req |-> Null, route |-> Null]

Init ==
    /\ task = [t \in Tasks |-> IdleTask]
    /\ meta = [k \in Keys |-> NoFile]
    /\ blob = [k \in Keys |-> [n \in Versions |-> NoFile]]
    /\ tmpRoot = [c \in Cands |-> NoFile]
    /\ tmpDir = [k \in Keys |-> [c \in Cands |-> NoFile]]
    /\ held = {}
    /\ now = 1
    /\ puts = 0
    /\ hist = [last |-> [k \in Keys |-> Null],
               accepted |-> [k \in Keys |-> 0]]
    /\ server = Started
    /\ call = Null


(***************************************************************************)
(* Helpers of the handlers.                                                *)
(***************************************************************************)
\* reqs.rs:111 builds the mutex in the call of dir::store: the lock a request
\* takes is the one it has just made
LockOf(t) == t

\* the rounds of the loop of new_in
Attempts == 256

\* OpenOptions::new().write(true).create_new(true).open(&path) in a directory
\* whose entries are regular files: a path of one component is created when
\* the name is free; a longer path goes through an entry that is no directory
open_new(dir, path) ==
    IF Len(path) = 1
    THEN IF dir[path[1]] = NoFile THEN "Ok" ELSE "AlreadyExists"
    ELSE IF dir[path[1]] = NoFile THEN "NotFound" ELSE "NotADirectory"

\* lines 42-63: each round pushes the candidate onto the path, which is not
\* popped, and opens it; AlreadyExists goes round again, another error is
\* returned
RECURSIVE new_in_round(_, _, _, _)
new_in_round(dir, cand, path, round) ==
    IF round = Attempts
    THEN [result |-> "gave up", path |-> path, attempts |-> round]
    ELSE LET pushed == Append(path, cand)
             opened == open_new(dir, pushed)
         IN  IF opened = "Ok"
             THEN [result |-> "created", path |-> pushed, attempts |-> round + 1]
             ELSE IF opened = "AlreadyExists"
             THEN new_in_round(dir, cand, pushed, round + 1)
             ELSE [result |-> opened, path |-> pushed, attempts |-> round + 1]

\* NamedTempFile::new_in: the candidate is drawn once, before the loop.  A
\* free name is created; a taken one fails with AlreadyExists, and the next
\* round pushes the same candidate onto the path again, so that the open of
\* <dir>/.<cand>.tmp/.<cand>.tmp fails with another error, which is returned
new_in(dir, cand) == new_in_round(dir, cand, <<>>, 0)

\* FileMeta::latest_version_id
latest_version_id(doc) == Len(doc.versions) - 1

\* FileMeta::latest_version
latest_version(doc) == doc.versions[latest_version_id(doc) + 1]

\* FileMeta::deleted
deleted(doc) == latest_version(doc).tombstone

\* load_meta: the document of a key, None without a .meta file
load_meta(k) == IF meta[k] = NoFile THEN Null ELSE meta[k]

\* open_version: the file of a version, or the error of the open
open_version(k, version) == blob[k][version]

\* dir::get, from load_meta, deleted and open_version: what a GET of the key
\* finds in the files as they are
get(k) ==
    LET doc == load_meta(k)
    IN  IF doc = Null THEN [status |-> 404]
        ELSE IF Len(doc.versions) = 0 THEN [status |-> 500]
        ELSE IF deleted(doc) THEN [status |-> 404]
        ELSE IF open_version(k, latest_version_id(doc)) = NoFile THEN [status |-> 500]
        ELSE [status |-> 200,
              version |-> latest_version(doc),
              body |-> stream_unpack(open_version(k, latest_version_id(doc)))]

\* the positions of a handler that are awaits of a filesystem or body
\* operation: the operation can fail there, and the task can be dropped there
AwaitPcs ==
    {"new_temp", "pack", "lock", "read_meta", "meta_temp",
     "meta_write", "persist_blob", "persist_meta", "get_meta", "get_open"}

InFlight(t) == task[t].pc # "idle"

\* a drop that leaves the metadata temp file behind
DropBlobTempOnly(t) ==
    LET r == task[t]
    IN  /\ tmpRoot' = IF r.temp # 0 THEN [tmpRoot EXCEPT ![r.temp] = NoFile] ELSE tmpRoot
        /\ tmpDir' = tmpDir
        /\ held' = held \ {[lock |-> LockOf(t), by |-> t]}

\* a drop of the temporary files that leaves the guard of the lock alive
DropKeepingGuard(t) ==
    LET r == task[t]
    IN  /\ tmpRoot' = IF r.temp # 0 THEN [tmpRoot EXCEPT ![r.temp] = NoFile] ELSE tmpRoot
        /\ tmpDir' = IF r.meta_temp # 0
                     THEN [tmpDir EXCEPT ![r.key][r.meta_temp] = NoFile]
                     ELSE tmpDir
        /\ held' = held

\* Drop for TempPath, for the handles the task still owns, and the drop of
\* the lock guard
DropOwned(t) ==
    LET r == task[t]
    IN  /\ tmpRoot' = IF r.temp # 0 THEN [tmpRoot EXCEPT ![r.temp] = NoFile] ELSE tmpRoot
        /\ tmpDir' = IF r.meta_temp # 0
                     THEN [tmpDir EXCEPT ![r.key][r.meta_temp] = NoFile]
                     ELSE tmpDir
        /\ held' = held \ {[lock |-> LockOf(t), by |-> t]}

(***************************************************************************)
(* reqs.rs handle, lines 58-90: the part before the first await.  A        *)
(* request is its method, its path and its headers under the names the     *)
(* client sent.  reqs.rs:69 calls sig::validate with the headers alone;    *)
(* the validate of sig.rs gets the URL and the method of the request, the  *)
(* secrets of the master key of main.rs:35-37, and the day of the clock.   *)
(***************************************************************************)
\* hyp::method
hyp_method(m) ==
    CASE m = "GET" -> Some("Get")
      [] m = "PUT" -> Some("Put")
      [] m = "POST" -> Some("Post")
      [] m = "DELETE" -> Some("Delete")
      [] OTHER -> Null

\* HeaderName::as_str (hyp.rs:31): the name in lower case
Lower(name) ==
    CASE name = "Host" -> "host"
      [] name = "X-Amz-Date" -> "x-amz-date"
      [] name = "Authorization" -> "authorization"
      [] OTHER -> name

\* hyp::headers
hyp_headers(req) ==
    [n \in {Lower(m) : m \in DOMAIN req.headers} |->
        req.headers[CHOOSE m \in DOMAIN req.headers : Lower(m) = n]]

\* HashMap::get
Get(map, name) == IF name \in DOMAIN map THEN Some(map[name]) ELSE Null

Master == CHOOSE m \in MasterKeys : m.seed = ""
AccessKeys == {"123", "124"}
SecretKeys == [access_key \in AccessKeys |-> secret_key_for(Master, access_key)]
Today == [day |-> 10, secs |-> 0]

Url(req) == [host |-> hyp_headers(req)["host"], path |-> req.path]

\* line 69: sig::validate for the request
Validated(req) ==
    validate(Url(req), SecretKeys, Today, hyp_headers(req), req.method)

\* a handler that takes every request as an anonymous one
RoutedUnvalidated(req) ==
    LET method == hyp_method(req.method)
        b_p == bucket_name(Get(hyp_headers(req), "Host"), req.path)
    IN  IF method = Null THEN [status |-> 405, route |-> Null]
        ELSE IF b_p = Null THEN [status |-> 400, route |-> Null]
        ELSE IF ~valid_bucket_name(b_p.some.bucket) THEN [status |-> 400, route |-> b_p]
        ELSE [status |-> 0, method |-> method.some, route |-> b_p]

\* lines 58-90: the answer of the synchronous part (0: none, the request
\* goes on), and what bucket_name made of the request
Routed(req) ==
    LET method == hyp_method(req.method)
        validation == Validated(req)
        b_p == bucket_name(Get(validation.headers, "Host"), req.path)
    IN  IF method = Null THEN [status |-> 405, route |-> Null]
        ELSE IF validation.tag \in {"Invalid", "Unsupported"}
        THEN [status |-> 403, route |-> Null]
        ELSE IF b_p = Null THEN [status |-> 400, route |-> Null]
        ELSE IF ~valid_bucket_name(b_p.some.bucket) THEN [status |-> 400, route |-> b_p]
        ELSE [status |-> 0, method |-> method.some, route |-> b_p]

\* the hosts, paths and headers of the requests of the model
LocalHost == <<"b", "o", "x">>
BucketHost == <<"b", "k", "t", ".", "x">>
BucketPath(k) == <<"/", "b", "k", "t", "/", k>>
ObjectPath(k) == <<"/", k>>
AmzDate == [ok |-> TRUE, day |-> 10, secs |-> 0]

Signed(method, host, path, region, secret) ==
    ("Host" :> host) @@ ("X-Amz-Date" :> AmzDate) @@
    ("Authorization" :>
        [v4 |-> TRUE,
         fields |-> [access_key |-> "123", valid_date |-> 10,
                     region |-> region, service |-> "s3",
                     signed_headers |-> <<"host", "x-amz-date">>,
                     signature |->
                         Signature([host |-> host, path |-> path], method, AmzDate,
                                   "123", secret,
                                   ("host" :> host) @@ ("x-amz-date" :> AmzDate))]])

\* the anonymous request of a key in the bucket of its path
PathRequest(m, k) ==
    [method |-> m, path |-> BucketPath(k), headers |-> ("Host" :> LocalHost)]

\* the other requests: methods that are not GET or PUT, the bucket in the
\* Host header (anonymous and signed), a bucket name that is too short,
\* and signatures that are wrong
Requests ==
    {PathRequest(m, k) : m \in {"POST", "DELETE", "HEAD"}, k \in Keys}
    \cup {[method |-> m, path |-> ObjectPath(k), headers |-> ("Host" :> BucketHost)] :
             m \in {"GET", "PUT"}, k \in Keys}
    \cup {[method |-> "GET", path |-> ObjectPath(k),
           headers |-> Signed("GET", BucketHost, ObjectPath(k), "us-east-1",
                              SecretKeys["123"])] : k \in Keys}
    \cup {[method |-> "GET", path |-> <<"/", "b", "/", k>>,
           headers |-> ("Host" :> LocalHost)] : k \in Keys}
    \cup {[method |-> "PUT", path |-> BucketPath(k),
           headers |-> Signed("PUT", LocalHost, BucketPath(k), "us-east-1",
                              secret_key_for(Master, "124"))] : k \in Keys}
    \cup {[method |-> m, path |-> BucketPath(k),
           headers |-> Signed(m, LocalHost, BucketPath(k), "eu-west-1",
                              SecretKeys["123"])] : m \in {"GET", "POST"}, k \in Keys}

\* what lines 58-90 make of each request
Routes ==
    [req \in Requests \cup {PathRequest(m, k) : m \in {"GET", "PUT"}, k \in Keys} |->
        Routed(req)]

\* the key of the storage part: the object of the path
KeyOf(path) == path[2]

\* a request the synchronous part answers: 405, 403 or 400
Refuse(t, req) ==
    /\ task[t].pc = "idle"
    /\ server.state = "serving"
    /\ Routes[req].status # 0
    /\ task' = [task EXCEPT ![t] =
                  [IdleTask EXCEPT !.pc = "done", !.method = req.method,
                                   !.status = Routes[req].status,
                                   !.req = req, !.route = Routes[req].route]]
    /\ UNCHANGED <<meta, blob, tmpRoot, tmpDir, held, now, puts, hist, server, call>>

\* lines 92-94 and 123: a POST or a DELETE, after get_config, is the Err of
\* bail!("not implemented"), which catch_handler answers as Fail does
NotImplemented(t, req) ==
    /\ task[t].pc = "idle"
    /\ server.state = "serving"
    /\ Routes[req].status = 0
    /\ Routes[req].method \in {"Post", "Delete"}
    /\ task' = [task EXCEPT ![t] =
                  [IdleTask EXCEPT !.pc = "done", !.method = req.method,
                                   !.status = 500, !.err = "not implemented",
                                   !.req = req, !.route = Routes[req].route]]
    /\ server' = [server EXCEPT !.chan = try_send(@)]
    /\ UNCHANGED <<meta, blob, tmpRoot, tmpDir, held, now, puts, hist, call>>

(***************************************************************************)
(* reqs.rs handle: the request reaches the storage part.  The await of     *)
(* bucket::get_config (line 92) reads a file no step of the model writes;  *)
(* its error is the IoError of the position the request starts in.         *)
(***************************************************************************)
RecvPut(t, k, b) ==
    LET req == PathRequest("PUT", k)
    IN  /\ task[t].pc = "idle"
        /\ server.state = "serving"
        /\ Routes[req].status = 0
        /\ Routes[req].method = "Put"
        /\ puts < MaxPuts
        /\ puts' = puts + 1
        /\ task' = [task EXCEPT ![t] =
                      [IdleTask EXCEPT !.pc = "new_temp", !.method = "PUT",
                                       !.key = KeyOf(Routes[req].route.some.path),
                                       !.body = b, !.put = puts + 1,
                                       !.req = req, !.route = Routes[req].route]]
        /\ UNCHANGED <<meta, blob, tmpRoot, tmpDir, held, now, hist, server, call>>

RecvGet(t, k) ==
    LET req == PathRequest("GET", k)
    IN  /\ task[t].pc = "idle"
        /\ server.state = "serving"
        /\ Routes[req].status = 0
        /\ Routes[req].method = "Get"
        /\ task' = [task EXCEPT ![t] =
                      [IdleTask EXCEPT !.pc = "get_meta", !.method = "GET",
                                       !.key = KeyOf(Routes[req].route.some.path),
                                       !.req = req, !.route = Routes[req].route]]
        /\ UNCHANGED <<meta, blob, tmpRoot, tmpDir, held, now, puts, hist, server, call>>

\* an Err out of the handler: the locals are dropped; catch_handler
\* (main.rs:93-101) attempts a shutdown and answers 500
Fail(t, err) ==
    /\ DropOwned(t)
    /\ task' = [task EXCEPT ![t].pc = "done", ![t].status = 500, ![t].err = err,
                            ![t].temp = 0, ![t].meta_temp = 0]
    /\ server' = [server EXCEPT !.chan = try_send(@)]
    /\ UNCHANGED <<meta, blob, now, puts, hist, call>>

\* NamedTempFile::new_in(".")
NewTemp(t, cand) ==
    /\ task[t].pc = "new_temp"
    /\ IF new_in(tmpRoot, cand).result = "created"
       THEN /\ tmpRoot' = [tmpRoot EXCEPT ![cand] = CreatedFile(task[t].put)]
            /\ task' = [task EXCEPT ![t].pc = "pack", ![t].temp = cand]
            /\ UNCHANGED <<meta, blob, tmpDir, held, now, puts, hist, server, call>>
       ELSE Fail(t, "new_in")

\* a round that loses what the encoder has not yet written
PackChunkLosingPending(t, emit) ==
    LET r == task[t]
        data == r.body[r.fed + 1]
        pending == r.enc \o data
    IN  /\ r.pc = "pack"
        /\ r.fed < Len(r.body)
        /\ IF emit /\ data # <<>>
           THEN /\ tmpRoot' = [tmpRoot EXCEPT ![r.temp].frames = Append(@, pending)]
                /\ task' = [task EXCEPT ![t].fed = @ + 1,
                                        ![t].md5 = Md5Input(@, data),
                                        ![t].length = @ + Len(data),
                                        ![t].enc = <<>>]
           ELSE /\ tmpRoot' = tmpRoot
                /\ task' = [task EXCEPT ![t].fed = @ + 1,
                                        ![t].md5 = Md5Input(@, data),
                                        ![t].length = @ + Len(data),
                                        ![t].enc = <<>>]
        /\ UNCHANGED <<meta, blob, tmpDir, held, now, puts, hist, server, call>>

\* stream_pack, one round of the loop over body.data(): the chunk goes into
\* the encoder (no write for an empty chunk), and what the encoder has put
\* into its buffer, if anything, is written to the file
PackChunk(t, emit) ==
    LET r == task[t]
        data == r.body[r.fed + 1]
        pending == r.enc \o data
    IN  /\ r.pc = "pack"
        /\ r.fed < Len(r.body)
        /\ IF emit /\ data # <<>>
           THEN /\ tmpRoot' = [tmpRoot EXCEPT ![r.temp].frames = Append(@, pending)]
                /\ task' = [task EXCEPT ![t].fed = @ + 1,
                                        ![t].md5 = Md5Input(@, data),
                                        ![t].length = @ + Len(data),
                                        ![t].enc = <<>>]
           ELSE /\ tmpRoot' = tmpRoot
                /\ task' = [task EXCEPT ![t].fed = @ + 1,
                                        ![t].md5 = Md5Input(@, data),
                                        ![t].length = @ + Len(data),
                                        ![t].enc = pending]
        /\ UNCHANGED <<meta, blob, tmpDir, held, now, puts, hist, server, call>>

\* a stream_pack that returns without writing enc.finish()
PackFinishNoFooter(t) ==
    LET r == task[t]
    IN  /\ r.pc = "pack"
        /\ r.fed = Len(r.body)
        /\ task' = [task EXCEPT ![t].pc = "lock", ![t].enc = <<>>,
                                ![t].content = [length |-> r.length,
                                                md5_base64 |-> Base64[r.md5]]]
        /\ UNCHANGED <<meta, blob, tmpRoot, tmpDir, held, now, puts, hist, server, call>>

\* stream_pack after the last chunk: enc.finish() is written, the ContentInfo
\* is returned, and the handle becomes a TempPath
PackFinish(t) ==
    LET r == task[t]
        frames == IF r.enc = <<>> THEN tmpRoot[r.temp].frames
                  ELSE Append(tmpRoot[r.temp].frames, r.enc)
    IN  /\ r.pc = "pack"
        /\ r.fed = Len(r.body)
        /\ tmpRoot' = [tmpRoot EXCEPT ![r.temp] =
                         [frames |-> frames, sum |-> Checksum(Flatten(frames)),
                          by |-> r.put]]
        /\ task' = [task EXCEPT ![t].pc = "lock", ![t].enc = <<>>,
                                ![t].content = [length |-> r.length,
                                                md5_base64 |-> Base64[r.md5]]]
        /\ UNCHANGED <<meta, blob, tmpDir, held, now, puts, hist, server, call>>


(***************************************************************************)
(* dir.rs put and write_new_version (dir::store of reqs.rs:109).           *)
(***************************************************************************)
\* put: create_dir_all(parent), then the guard of the metadata lock
Lock(t) ==
    /\ task[t].pc = "lock"
    /\ \A h \in held : h.lock # LockOf(t)
    /\ held' = held \cup {[lock |-> LockOf(t), by |-> t]}
    /\ task' = [task EXCEPT ![t].pc = "read_meta"]
    /\ UNCHANGED <<meta, blob, tmpRoot, tmpDir, now, puts, hist, server, call>>

\* a load that starts a fresh document every time
LoadedFresh(k) == [key |-> k, versions |-> <<>>]

\* write_new_version, lines 55-62: the document on disk, or a fresh one
Loaded(k) == IF meta[k] = NoFile THEN [key |-> k, versions |-> <<>>] ELSE meta[k]

\* write_new_version, line 64
NewVersion(doc) == Len(doc.versions)

\* a version record built from the Intermediate of dira.rs write_temp_file,
\* which returns length 0 and no digest
FileVersionOfEmptyInfo(content, modified) ==
    [modified |-> modified,
     content_length |-> 0,
     content_md5_base64 |-> <<"b64">>,
     tombstone |-> FALSE]

\* write_new_version, lines 66-72
FileVersion(content, modified) ==
    [modified |-> modified,
     content_length |-> content.length,
     content_md5_base64 |-> content.md5_base64,
     tombstone |-> FALSE]

\* write_new_version, lines 55-74: read the document, push the version
ReadMeta(t) ==
    LET r == task[t]
        doc == Loaded(r.key)
    IN  /\ r.pc = "read_meta"
        /\ now' = now + 1
        /\ task' = [task EXCEPT ![t].pc = "meta_temp",
                                ![t].new_version = NewVersion(doc),
                                ![t].modified = now,
                                ![t].data = [doc EXCEPT !.versions =
                                               Append(@, FileVersion(r.content, now))]]
        /\ UNCHANGED <<meta, blob, tmpRoot, tmpDir, held, puts, hist, server, call>>

\* write_new_version, lines 76-77: NamedTempFile::new_in(root.parent())
MetaTemp(t, cand) ==
    LET r == task[t]
    IN  /\ r.pc = "meta_temp"
        /\ IF new_in(tmpDir[r.key], cand).result = "created"
           THEN /\ tmpDir' = [tmpDir EXCEPT ![r.key][cand] = [doc |-> Null, by |-> r.put]]
                /\ task' = [task EXCEPT ![t].pc = "meta_write", ![t].meta_temp = cand]
                /\ UNCHANGED <<meta, blob, tmpRoot, held, now, puts, hist, server, call>>
           ELSE Fail(t, "new_in")

\* write_new_version, lines 78-79: write_all(&data), into_temp_path()
MetaWrite(t) ==
    LET r == task[t]
    IN  /\ r.pc = "meta_write"
        /\ tmpDir' = [tmpDir EXCEPT ![r.key][r.meta_temp].doc = r.data]
        /\ task' = [task EXCEPT ![t].pc = "persist_blob"]
        /\ UNCHANGED <<meta, blob, tmpRoot, held, now, puts, hist, server, call>>

\* a blob persist whose rename does not happen: the temp file is dropped
PersistBlobSkipped(t) ==
    LET r == task[t]
    IN  /\ r.pc = "persist_blob"
        /\ tmpRoot' = [tmpRoot EXCEPT ![r.temp] = NoFile]
        /\ task' = [task EXCEPT ![t].pc = "persist_meta", ![t].temp = 0]
        /\ UNCHANGED <<meta, blob, tmpDir, held, now, puts, hist, server, call>>

\* a persist that renames and does not forget the handle
PersistBlobKeepingHandle(t) ==
    LET r == task[t]
    IN  /\ r.pc = "persist_blob"
        /\ blob' = [blob EXCEPT ![r.key][r.new_version] = tmpRoot[r.temp]]
        /\ tmpRoot' = [tmpRoot EXCEPT ![r.temp] = NoFile]
        /\ task' = [task EXCEPT ![t].pc = "persist_meta"]
        /\ UNCHANGED <<meta, tmpDir, held, now, puts, hist, server, call>>

\* write_new_version, lines 83-84: temp.persist(<path>.<new_version>)
PersistBlob(t) ==
    LET r == task[t]
    IN  /\ r.pc = "persist_blob"
        /\ blob' = [blob EXCEPT ![r.key][r.new_version] = tmpRoot[r.temp]]
        /\ tmpRoot' = [tmpRoot EXCEPT ![r.temp] = NoFile]
        /\ task' = [task EXCEPT ![t].pc = "persist_meta", ![t].temp = 0]
        /\ UNCHANGED <<meta, tmpDir, held, now, puts, hist, server, call>>

\* write_new_version, lines 86-89: meta_temp.persist(<path>.meta); put then
\* drops the guard of the lock
PersistMeta(t) ==
    LET r == task[t]
    IN  /\ r.pc = "persist_meta"
        /\ meta' = [meta EXCEPT ![r.key] = tmpDir[r.key][r.meta_temp].doc]
        /\ tmpDir' = [tmpDir EXCEPT ![r.key][r.meta_temp] = NoFile]
        /\ held' = held \ {[lock |-> LockOf(t), by |-> t]}
        /\ task' = [task EXCEPT ![t].pc = "respond", ![t].meta_temp = 0]
        /\ UNCHANGED <<blob, tmpRoot, now, puts, hist, server, call>>

\* reqs.rs:118-121: the answer to the PUT
Respond(t) ==
    LET r == task[t]
    IN  /\ r.pc = "respond"
        /\ task' = [task EXCEPT ![t].pc = "done", ![t].status = 202]
        /\ hist' = [hist EXCEPT !.last[r.key] = [body |-> Flatten(r.body)],
                                !.accepted[r.key] = @ + 1]
        /\ UNCHANGED <<meta, blob, tmpRoot, tmpDir, held, now, puts, server, call>>

(***************************************************************************)
(* reqs.rs:95-103, the GET: dir::get, then the spawned stream_unpack.      *)
(***************************************************************************)
\* a fetch that goes on to the latest version whatever its tombstone flag
GetMetaOfLatest(t) ==
    LET r == task[t]
        doc == load_meta(r.key)
    IN  /\ r.pc = "get_meta"
        /\ IF doc = Null
           THEN task' = [task EXCEPT ![t].pc = "done", ![t].status = 404]
           ELSE task' = [task EXCEPT ![t].pc = "get_open",
                                     ![t].new_version = latest_version_id(doc),
                                     ![t].got = [version |-> latest_version(doc)]]
        /\ UNCHANGED <<meta, blob, tmpRoot, tmpDir, held, now, puts, hist, server, call>>

\* load_meta, and None for a key without a document or with a tombstone
GetMeta(t) ==
    LET r == task[t]
        doc == load_meta(r.key)
    IN  /\ r.pc = "get_meta"
        /\ IF doc = Null
           THEN task' = [task EXCEPT ![t].pc = "done", ![t].status = 404]
           ELSE IF Len(doc.versions) = 0
           THEN task' = [task EXCEPT ![t].pc = "done", ![t].status = 500,
                                     ![t].err = "versions array cannot be empty"]
           ELSE IF deleted(doc)
           THEN task' = [task EXCEPT ![t].pc = "done", ![t].status = 404]
           ELSE task' = [task EXCEPT ![t].pc = "get_open",
                                     ![t].new_version = latest_version_id(doc),
                                     ![t].got = [version |-> latest_version(doc)]]
        /\ UNCHANGED <<meta, blob, tmpRoot, tmpDir, held, now, puts, hist, server, call>>

\* open_version; the body of the answer is what stream_unpack sends for the
\* file that was opened
GetOpen(t) ==
    LET r == task[t]
        file == open_version(r.key, r.new_version)
    IN  /\ r.pc = "get_open"
        /\ IF file = NoFile
           THEN task' = [task EXCEPT ![t].pc = "done", ![t].status = 500,
                                     ![t].err = "open_version"]
           ELSE task' = [task EXCEPT ![t].pc = "done", ![t].status = 200,
                                     ![t].got = [status |-> 200,
                                                 version |-> r.got.version,
                                                 body |-> stream_unpack(file)]]
        /\ UNCHANGED <<meta, blob, tmpRoot, tmpDir, held, now, puts, hist, server, call>>

(***************************************************************************)
(* The ways out of a handler, and of the process.                          *)
(***************************************************************************)
\* an operation the task awaits fails: `?` returns the error
IoError(t) ==
    /\ task[t].pc \in AwaitPcs
    /\ Fail(t, task[t].pc)

\* the task is dropped at an await: the locals are dropped, nothing is answered
Cancel(t) ==
    /\ task[t].pc \in AwaitPcs
    /\ DropOwned(t)
    /\ task' = [task EXCEPT ![t] = IdleTask]
    /\ UNCHANGED <<meta, blob, now, puts, hist, server, call>>

\* the answer has been sent; the task ends
Finish(t) ==
    /\ task[t].pc = "done"
    /\ task' = [task EXCEPT ![t] = IdleTask]
    /\ UNCHANGED <<meta, blob, tmpRoot, tmpDir, held, now, puts, hist, server, call>>

\* a temporary file whose request died with the process: no request owns it
Orphaned(file) == IF file = NoFile THEN NoFile ELSE [file EXCEPT !.by = 0]

\* the process dies and is started again: no destructor runs, the files stay
Crash ==
    /\ \E t \in Tasks : InFlight(t)
    /\ task' = [t \in Tasks |-> IdleTask]
    /\ held' = {}
    /\ tmpRoot' = [c \in Cands |-> Orphaned(tmpRoot[c])]
    /\ tmpDir' = [k \in Keys |-> [c \in Cands |-> Orphaned(tmpDir[k][c])]]
    /\ server' = Started
    /\ UNCHANGED <<meta, blob, now, puts, hist, call>>

(***************************************************************************)
(* main.rs: the termination signal and the graceful shutdown.              *)
(***************************************************************************)
\* a handler that keeps its sender for the next signal
SignalKeepingSender ==
    /\ server.state # "exited"
    /\ server' = [server EXCEPT !.chan = try_send(@),
                                !.sent = IF server.chan < ChannelCapacity
                                         THEN @ + 1 ELSE @]
    /\ UNCHANGED <<task, meta, blob, tmpRoot, tmpDir, held, now, puts, hist, call>>

\* lines 53-62, the ctrlc handler: the first signal takes the sender out of
\* the Cell and attempts the shutdown; a later one finds None
Signal ==
    /\ server.state # "exited"
    /\ IF server.on_signal
       THEN server' = [server EXCEPT !.on_signal = FALSE,
                                     !.chan = try_send(@),
                                     !.sent = IF server.chan < ChannelCapacity
                                              THEN @ + 1 ELSE @]
       ELSE server' = [server EXCEPT !.ignored = TRUE]
    /\ UNCHANGED <<task, meta, blob, tmpRoot, tmpDir, held, now, puts, hist, call>>

\* lines 75-80: is_shutdown.recv() yields a message; the server stops
\* accepting and lets the requests in flight finish
GracefulShutdown ==
    /\ server.state = "serving"
    /\ server.chan > 0
    /\ server' = [server EXCEPT !.chan = @ - 1, !.state = "draining",
                                !.shutdowns = @ + 1]
    /\ UNCHANGED <<task, meta, blob, tmpRoot, tmpDir, held, now, puts, hist, call>>

\* lines 80-82: no request is left, serve returns and main ends
Exit ==
    /\ server.state = "draining"
    /\ \A t \in Tasks : task[t].pc = "idle"
    /\ server' = [server EXCEPT !.state = "exited"]
    /\ UNCHANGED <<task, meta, blob, tmpRoot, tmpDir, held, now, puts, hist, call>>

Step(t) ==
    \/ \E cand \in Cands : NewTemp(t, cand)
    \/ \E emit \in BOOLEAN : PackChunk(t, emit)
    \/ PackFinish(t)
    \/ Lock(t)
    \/ ReadMeta(t)
    \/ \E cand \in Cands : MetaTemp(t, cand)
    \/ MetaWrite(t)
    \/ PersistBlob(t)
    \/ PersistMeta(t)
    \/ Respond(t)
    \/ GetMeta(t)
    \/ GetOpen(t)
    \/ IoError(t)
    \/ Cancel(t)
    \/ Finish(t)

Next ==
    \/ \E t \in Tasks, k \in Keys, b \in Bodies : RecvPut(t, k, b)
    \/ \E t \in Tasks, k \in Keys : RecvGet(t, k)
    \/ \E t \in Tasks : Step(t)
    \/ Crash

Spec == Init /\ [][Next]_vars

(***************************************************************************)
(* The handlers under the scheduling of the runtime: a task that is ready  *)
(* is polled, and an operation it awaits ends.  The steps of a handler     *)
(* that is not dropped and meets no error are taken sooner or later.       *)
(***************************************************************************)
Polled(t) ==
    \/ \E cand \in Cands : NewTemp(t, cand)
    \/ \E emit \in BOOLEAN : PackChunk(t, emit)
    \/ PackFinish(t)
    \/ Lock(t)
    \/ ReadMeta(t)
    \/ \E cand \in Cands : MetaTemp(t, cand)
    \/ MetaWrite(t)
    \/ PersistBlob(t)
    \/ PersistMeta(t)
    \/ Respond(t)
    \/ GetMeta(t)
    \/ GetOpen(t)
    \/ Finish(t)

SpecFair == Init /\ [][Next]_vars /\ \A t \in Tasks : WF_vars(Polled(t))

(***************************************************************************)
(* The whole server on one connection: every request of the model, one at  *)
(* a time, with the termination signal and the graceful shutdown.          *)
(***************************************************************************)
ServeTasks == {1}

NextServe ==
    \/ \E t \in ServeTasks, k \in Keys, b \in Bodies : RecvPut(t, k, b)
    \/ \E t \in ServeTasks, k \in Keys : RecvGet(t, k)
    \/ \E t \in ServeTasks, req \in Requests : Refuse(t, req)
    \/ \E t \in ServeTasks, req \in Requests : NotImplemented(t, req)
    \/ \E t \in ServeTasks : Step(t)
    \/ Signal
    \/ GracefulShutdown
    \/ Exit
    \/ Crash

SpecServe == Init /\ [][NextServe]_vars


(***************************************************************************)
(* The same handlers when the client sends one request at a time and the   *)
(* process stays up.                                                       *)
(***************************************************************************)
Quiet == \A t \in Tasks : task[t].pc = "idle"

NextSeq ==
    \/ \E t \in Tasks, k \in Keys, b \in Bodies : Quiet /\ RecvPut(t, k, b)
    \/ \E t \in Tasks, k \in Keys : Quiet /\ RecvGet(t, k)
    \/ \E t \in Tasks : Step(t)

SpecSeq == Init /\ [][NextSeq]_vars


(***************************************************************************)
(* The functions of users.rs, sig.rs, bucket.rs and reqs.rs, and new_in of  *)
(* temp.rs over a directory that does not change, each applied to          *)
(* arguments from a bounded set: `call` holds the arguments and, after the *)
(* step that applies the function, the result.                             *)
(***************************************************************************)
\* RoleId([u8; 12])
RoleIds ==
    {<<1, 2, 3, 4, 5, 6, 1, 2, 3, 4, 5, 6>>,
     <<1, 2, 3, 4, 5, 6, 1, 2, 3, 4, 5, 7>>,
     <<0, 0, 0, 0, 0, 0, 0, 0, 0, 0, 0, 0>>,
     <<255, 255, 255, 255, 255, 255, 255, 255, 255, 255, 255, 255>>}

\* rand::random::<u64>().to_le_bytes()
Randoms ==
    {<<0, 0, 0, 0, 0, 0, 0, 0>>,
     <<1, 2, 3, 4, 5, 6, 7, 8>>,
     <<255, 255, 255, 255, 255, 255, 255, 255>>}

\* strings handed to parse_access: keys as issued, and keys cut short,
\* lengthened, with another prefix, with a character outside the alphabet,
\* and with another master id
KeysLike(key) ==
    {key,
     SubSeq(key, 1, 29),
     key \o <<0>>,
     [key EXCEPT ![2] = Char2],
     SubSeq([key EXCEPT ![2] = Char2], 1, 29),
     [key EXCEPT ![10] = NotB64],
     [key EXCEPT ![2] = Char2, ![10] = NotB64],
     [key EXCEPT ![3] = (@ + 1) % 64],
     [key EXCEPT ![3] = (@ + 1) % 64, ![10] = NotB64]}

ParseInputs ==
    UNION {KeysLike(access_key_for(m, r, x)) :
              m \in MasterKeys, r \in RoleIds, x \in {<<1, 2, 3, 4, 5, 6, 7, 8>>}}

\* the request of the test canned_request, and what is varied in it
CannedUrl == [host |-> <<"l", "o", "c", "a", "l">>, path |-> <<"/", "f">>]

CannedHeaders(date) ==
    ("accept-encoding" :> "identity") @@ ("host" :> CannedUrl.host) @@
    ("x-amz-acl" :> "private") @@ ("x-amz-date" :> date)

SignedHeaderLists ==
    {<<"host", "x-amz-date">>,
     <<"host", "x-amz-acl", "x-amz-date">>,
     <<"host", "x-amz-security-token", "x-amz-date">>,
     <<"host", "host">>}

\* the headers of the request that are in a list of signed headers
Restrict(headers, names) ==
    [n \in {names[i] : i \in 1..Len(names)} \cap DOMAIN headers |-> headers[n]]

Authorization(valid_date, region, service, signed_headers, access_key, secret, date) ==
    [v4 |-> TRUE,
     fields |-> [access_key |-> access_key, valid_date |-> valid_date,
                 region |-> region, service |-> service,
                 signed_headers |-> signed_headers,
                 signature |->
                     Signature(CannedUrl, "PUT", date, access_key, secret,
                               Restrict(CannedHeaders(date), signed_headers))]]

ValidateHeaders ==
    {CannedHeaders(AmzDate),
     CannedHeaders(AmzDate) @@ ("authorization" :> [v4 |-> FALSE, fields |-> Null]),
     CannedHeaders(AmzDate) @@ ("authorization" :> [v4 |-> TRUE, fields |-> Null]),
     CannedHeaders([ok |-> FALSE]) @@ ("authorization" :> [v4 |-> FALSE, fields |-> Null]),
     CannedHeaders(AmzDate)
         @@ ("authorization" :> [v4 |-> TRUE, fields |-> RegexCheckedDate]),
     CannedHeaders(AmzDate)
         @@ ("authorization" :> [v4 |-> FALSE, fields |-> RegexCheckedDate]),
     CannedHeaders([ok |-> FALSE])
         @@ ("authorization" :> [v4 |-> TRUE, fields |-> RegexCheckedDate]),
     Remove(CannedHeaders(AmzDate), "x-amz-date")
         @@ ("authorization" :> [v4 |-> TRUE, fields |-> Null])}
    \cup {CannedHeaders(date) @@
             ("authorization" :>
                 Authorization(valid_date, region, "s3", signed_headers, access_key,
                               secret, date)) :
             valid_date \in 6..14,
             region \in {"us-east-1", "eu-west-1"},
             signed_headers \in SignedHeaderLists,
             access_key \in {"123"},
             secret \in {SecretKeys["123"], SecretKeys["124"]},
             date \in {AmzDate, [ok |-> TRUE, day |-> 11, secs |-> 86399]}}

\* the names of the test `naming` (bucket.rs 93-104)
NamingTest ==
    {<<"h", "e", "l", "l", "o">>,
     <<"h", "e">>,
     <<"7", "8", "9">>,
     <<".", "l", "o", "l">>,
     <<"l", "o", "l", ".">>,
     <<"l", "o", "l", ".", ".", "p", "o", "n", "i", "e", "s">>,
     <<"l", "o", "l", ".", "p", "o", "n", "i", "e", "s">>,
     <<"x", "n", "-", "-", "w", "o", "w", "-", "e", "e">>,
     <<"x", "m", "-", "-", "w", "o", "w", "-", "e", "e">>}

\* characters of names: letters and digits at the ends of their ranges, the
\* two marks, and characters outside the ranges
NameChars == {"a", "z", "0", "9", ".", "-", "A", "Z", "_", "@", "{", "/", ":"}

Repeat(c, n) == [i \in 1..n |-> c]

\* names around the two lengths, with each character at each end and inside
BucketNames ==
    NamingTest
    \cup {Repeat("a", n) : n \in {0, 1, 2, 3, 4, 62, 63, 64, 65}}
    \cup {<<c>> \o Repeat("a", n) : c \in NameChars, n \in {2, 62, 63}}
    \cup {Repeat("a", n) \o <<c>> : c \in NameChars, n \in {2, 62, 63}}
    \cup {<<"a", c, d, "a">> : c \in NameChars, d \in NameChars}
    \cup {Repeat("a", 30) \o <<c, d>> \o Repeat("a", n) :
             c \in {".", "-"}, d \in {".", "-"}, n \in {31, 32}}

\* the signature computed for a request, and the signatures a client sends
\* for it: that one, and ones that differ from it first at some position
Computed == [i \in 1..SignatureLen |-> "a"]

SentSignatures ==
    {Computed}
    \cup {[Computed EXCEPT ![i] = "0"] : i \in {1, 2, 8, 9, 16, 17, 32, 33, SignatureLen}}
    \cup {[i \in 1..SignatureLen |-> IF i < first THEN "a" ELSE "f"] :
             first \in {1, 33}}

\* directories new_in is called in: no temporary file, and the temporary
\* files of other requests, of this run or left by an earlier one
Directories == [Cands -> {NoFile, CreatedFile(1), [doc |-> Null, by |-> 1]}]

\* the hosts and paths of the test `name` (reqs.rs 127-153), and others: a
\* host of three parts, an empty first label, the host of a port, and paths
\* with an empty first segment
NameTestHosts ==
    {Null,
     Some(<<"f", "o", "o">>),
     Some(<<"p", "o", "t", "a", "t", "o", ".", "f", "o", "o">>),
     Some(<<"a", ".", "b", ".", "c">>),
     Some(<<".", "f", "o", "o">>),
     Some(<<"f", "o", "o", ".">>),
     Some(<<"f", "o", "o", ":", "8", "0">>),
     Some(<<>>)}

NameTestPaths ==
    {<<"/">>,
     <<"/", "p", "o", "t", "a", "t", "o">>,
     <<"/", "p", "o", "t", "a", "t", "o", "/">>,
     <<"/", "p", "o", "t", "a", "t", "o", "/", "a", "n", "/", "d">>,
     <<"/", "p", "l", "a", "n", "t", "s", "/", "g", "r", "e", "e", "n", "s">>,
     <<"/", "c", "h", "e", "e", "s", "e", "/", "a", "n", "d", "/", "b", "e", "a", "n", "s">>,
     <<"/", "/">>,
     <<"/", "/", "x">>,
     <<"/", "a", ".", "b", "/", "c">>}

\* the bytes memcmp reads at a time: one, a word, or a vector register
MemcmpWidths == {1, 8, 16, 32, 64}

CallInputs ==
    {[fn |-> "access_key_for", self |-> m, role_id |-> r, parser |-> p,
      out |-> Null, back |-> Null] :
         m \in MasterKeys, r \in RoleIds, p \in MasterKeys}
    \cup {[fn |-> "parse_access", self |-> m, key |-> key, out |-> Null] :
             m \in MasterKeys, key \in ParseInputs}
    \cup {[fn |-> "validate", url |-> CannedUrl, now |-> [day |-> 10, secs |-> secs],
           headers |-> headers, method |-> "PUT", out |-> Null] :
             secs \in {0, 86399}, headers \in ValidateHeaders}
    \cup {[fn |-> "valid_bucket_name", name |-> name, out |-> Null] :
             name \in BucketNames}
    \cup {[fn |-> "signature_ne", signature |-> signature, war |-> Computed,
           out |-> Null] : signature \in SentSignatures}
    \cup {[fn |-> "new_in", dir |-> dir, out |-> Null] : dir \in Directories}
    \cup {[fn |-> "bucket_name", host_header |-> host, path |-> path, out |-> Null] :
             host \in NameTestHosts, path \in NameTestPaths}

InitCalls ==
    /\ task = [t \in Tasks |-> IdleTask]
    /\ meta = [k \in Keys |-> NoFile]
    /\ blob = [k \in Keys |-> [n \in Versions |-> NoFile]]
    /\ tmpRoot = [c \in Cands |-> NoFile]
    /\ tmpDir = [k \in Keys |-> [c \in Cands |-> NoFile]]
    /\ held = {}
    /\ now = 1
    /\ puts = 0
    /\ hist = [last |-> [k \in Keys |-> Null],
               accepted |-> [k \in Keys |-> 0]]
    /\ server = Started
    /\ call \in CallInputs

Uncalled == <<task, meta, blob, tmpRoot, tmpDir, held, now, puts, hist, server>>

AccessKeyFor(random) ==
    /\ call.fn = "access_key_for"
    /\ call.out = Null
    /\ call' = [call EXCEPT !.out = Some(access_key_for(call.self, call.role_id, random))]
    /\ UNCHANGED Uncalled

\* the issued key is handed to parse_access
ParseIssued ==
    /\ call.fn = "access_key_for"
    /\ call.out # Null
    /\ call.back = Null
    /\ call' = [call EXCEPT !.back = parse_access(call.parser, call.out.some)]
    /\ UNCHANGED Uncalled

ParseAccess ==
    /\ call.fn = "parse_access"
    /\ call.out = Null
    /\ call' = [call EXCEPT !.out = parse_access(call.self, call.key)]
    /\ UNCHANGED Uncalled

Validate ==
    /\ call.fn = "validate"
    /\ call.out = Null
    /\ call' = [call EXCEPT !.out = validate(call.url, SecretKeys, call.now,
                                             call.headers, call.method)]
    /\ UNCHANGED Uncalled

ValidBucketName ==
    /\ call.fn = "valid_bucket_name"
    /\ call.out = Null
    /\ call' = [call EXCEPT !.out = Some(valid_bucket_name(call.name))]
    /\ UNCHANGED Uncalled

\* sig.rs 103-108: the signature of the header is compared with `war`
CompareSignature(width) ==
    /\ call.fn = "signature_ne"
    /\ call.out = Null
    /\ call' = [call EXCEPT !.out = str_ne(call.signature, call.war, width)]
    /\ UNCHANGED Uncalled

\* NamedTempFile::new_in(dir), with the candidate rand::random() gives
NewIn(cand) ==
    /\ call.fn = "new_in"
    /\ call.out = Null
    /\ call' = [call EXCEPT !.out = Some([cand |-> cand, made |-> new_in(call.dir, cand)])]
    /\ UNCHANGED Uncalled

BucketName ==
    /\ call.fn = "bucket_name"
    /\ call.out = Null
    /\ call' = [call EXCEPT !.out = Some(bucket_name(call.host_header, call.path))]
    /\ UNCHANGED Uncalled

NextCalls ==
    \/ \E random \in Randoms : AccessKeyFor(random)
    \/ ParseIssued
    \/ ParseAccess
    \/ Validate
    \/ ValidBucketName
    \/ \E width \in MemcmpWidths : CompareSignature(width)
    \/ \E cand \in Cands : NewIn(cand)
    \/ BucketName

SpecCalls == InitCalls /\ [][NextCalls]_vars

(***************************************************************************)
(* The GET over a storage root as an earlier run of the store left it: a   *)
(* key has no document, a document whose latest version is a payload, or   *)
(* a document whose latest version is a tombstone (dir.rs:212; the blob of *)
(* a tombstone does not exist).                                            *)
(***************************************************************************)
StoredFile(data) == [frames |-> <<data>>, sum |-> Checksum(data), by |-> 0]

StoredVersion(data) ==
    [modified |-> 0, content_length |-> Len(data),
     content_md5_base64 |-> Md5Base64(data), tombstone |-> FALSE]

Tombstone ==
    [modified |-> 0, content_length |-> 0,
     content_md5_base64 |-> Md5Base64(<<>>), tombstone |-> TRUE]

\* the documents and blob files of a key
Stored(k) ==
    {[meta |-> NoFile, blob |-> [n \in Versions |-> NoFile]],
     [meta |-> [key |-> k, versions |-> <<StoredVersion(<<1>>)>>],
      blob |-> [n \in Versions |-> IF n = 0 THEN StoredFile(<<1>>) ELSE NoFile]],
     [meta |-> [key |-> k, versions |-> <<StoredVersion(<<>>)>>],
      blob |-> [n \in Versions |-> IF n = 0 THEN StoredFile(<<>>) ELSE NoFile]],
     [meta |-> [key |-> k, versions |-> <<StoredVersion(<<1>>), Tombstone>>],
      blob |-> [n \in Versions |-> IF n = 0 THEN StoredFile(<<1>>) ELSE NoFile]],
     [meta |-> [key |-> k, versions |-> <<StoredVersion(<<1>>), StoredVersion(<<2>>)>>],
      blob |-> [n \in Versions |-> IF n = 0 THEN StoredFile(<<1>>) ELSE StoredFile(<<2>>)]]}

InitStored ==
    /\ task = [t \in Tasks |-> IdleTask]
    /\ \E st \in [Keys -> UNION {Stored(k) : k \in Keys}] :
           /\ \A k \in Keys : st[k] \in Stored(k)
           /\ meta = [k \in Keys |-> st[k].meta]
           /\ blob = [k \in Keys |-> st[k].blob]
    /\ tmpRoot = [c \in Cands |-> NoFile]
    /\ tmpDir = [k \in Keys |-> [c \in Cands |-> NoFile]]
    /\ held = {}
    /\ now = 1
    /\ puts = 0
    /\ hist = [last |-> [k \in Keys |-> Null],
               accepted |-> [k \in Keys |-> 0]]
    /\ server = Started
    /\ call = Null

NextStored ==
    \/ \E t \in Tasks, k \in Keys : RecvGet(t, k)
    \/ \E t \in Tasks : GetMeta(t)
    \/ \E t \in Tasks : GetOpen(t)
    \/ \E t \in Tasks : IoError(t)
    \/ \E t \in Tasks : Cancel(t)
    \/ \E t \in Tasks : Finish(t)

SpecStored == InitStored /\ [][NextStored]_vars


(***************************************************************************)
(* Properties.                                                             *)
(***************************************************************************)
\* the versions a key's .meta file lists
Listed(k) == IF meta[k] = NoFile THEN <<>> ELSE meta[k].versions

Responding(k) == {t \in Tasks : task[t].pc = "respond" /\ task[t].key = k}

C2_Counts ==
    \A k \in Keys :
        /\ Len(Listed(k)) = hist.accepted[k] + Cardinality(Responding(k))
        /\ \A n \in 1..Len(Listed(k)) : blob[k][n - 1] # NoFile
        /\ (meta[k] = NoFile) <=> (hist.accepted[k] + Cardinality(Responding(k)) = 0)

C2_Extends ==
    \A k \in Keys :
        meta'[k] # meta[k] =>
            /\ meta'[k] # NoFile
            /\ meta'[k].versions # <<>>
            /\ SubSeq(meta'[k].versions, 1, Len(meta'[k].versions) - 1) = Listed(k)

C3_ListedBlobExists ==
    \A k \in Keys : \A n \in 1..Len(Listed(k)) :
        ~Listed(k)[n].tombstone => blob[k][n - 1] # NoFile

\* the process died between the two renames of the second PUT: the blob of
\* version 1 is on disk and the document lists version 0 alone
C3_Witness ==
    \E k \in Keys :
        /\ Quiet
        /\ Len(Listed(k)) = 1
        /\ blob[k][0] # NoFile
        /\ blob[k][1] # NoFile
        /\ hist.accepted[k] = 1

\* C4: in every reachable state each version record of .meta carries the
\* plaintext length and the MD5 of the payload of the blob file at <path>.n.
C4_RecordMatchesBlob ==
    \A k \in Keys : \A n \in 1..Len(Listed(k)) :
        (~Listed(k)[n].tombstone /\ blob[k][n - 1] # NoFile) =>
            LET plain == stream_unpack(blob[k][n - 1])
            IN  /\ plain.ok
                /\ Listed(k)[n].content_length = Len(plain.data)
                /\ Listed(k)[n].content_md5_base64 = Md5Base64(plain.data)

\* the positions of write_new_version, where the guard of the lock is alive
InCritical(t) ==
    task[t].pc \in {"read_meta", "meta_temp", "meta_write", "persist_blob", "persist_meta"}

\* the positions after line 64, where new_version is computed
HasIndex(t) ==
    task[t].pc \in {"meta_temp", "meta_write", "persist_blob", "persist_meta"}

\* C5: no two requests are in the version-append critical section at the same
\* time, and two PUTs of one key never hold the same version index in it.
C5_MutualExclusion ==
    \A t, u \in Tasks :
        t # u =>
            /\ ~(InCritical(t) /\ InCritical(u))
            /\ (HasIndex(t) /\ HasIndex(u) /\ task[t].key = task[u].key)
                   => task[t].new_version # task[u].new_version

\* the bytes of a file
Content(file) == IF file = NoFile THEN NoFile ELSE [frames |-> file.frames, sum |-> file.sum]

C6_Immutable ==
    \A k \in Keys : \A n \in 1..Len(Listed(k)) :
        /\ meta'[k] # NoFile
        /\ Len(meta'[k].versions) >= n
        /\ meta'[k].versions[n] = Listed(k)[n]
        /\ Content(blob'[k][n - 1]) = Content(blob[k][n - 1])

\* C6: once version n is listed in a key's .meta file, no step changes the
\* record of version n or the blob file <path>.n.
C6_PublishedImmutable == [][C6_Immutable]_vars

\* C7: a GET answered 200 has the record and the payload of one version: the
\* payload decodes, and the record carries its length and its MD5.
C7_GetSeesWholeVersion ==
    \A t \in Tasks :
        LET r == task[t]
        IN  (r.pc = "done" /\ r.method = "GET" /\ r.status = 200) =>
                /\ r.got.body.ok
                /\ r.got.version.content_length = Len(r.got.body.data)
                /\ r.got.version.content_md5_base64 = Md5Base64(r.got.body.data)

\* C8: a PUT answered 500 is not visible: no version the .meta file lists has
\* the record this PUT built, and where the file of a listed version is the
\* one this PUT wrote, a GET cannot tell: the payload is the one the record
\* describes.
C8_FailedPutInvisible ==
    \A t \in Tasks :
        LET r == task[t]
        IN  (r.pc = "done" /\ r.method = "PUT" /\ r.status = 500) =>
                \A n \in 1..Len(Listed(r.key)) :
                    /\ Listed(r.key)[n].modified # r.modified
                    /\ (blob[r.key][n - 1] # NoFile /\ blob[r.key][n - 1].by = r.put) =>
                           LET plain == stream_unpack(blob[r.key][n - 1])
                           IN  /\ Listed(r.key)[n].content_length = Len(plain.data)
                               /\ Listed(r.key)[n].content_md5_base64 = Md5Base64(plain.data)

NoTemp ==
    /\ \A c \in Cands : tmpRoot[c] = NoFile
    /\ \A k \in Keys, c \in Cands : tmpDir[k][c] = NoFile

Absent(k) == meta[k] = NoFile \/ (meta[k].versions # <<>> /\ deleted(meta[k]))

C11_Fetch ==
    \A t \in Tasks :
        /\ (/\ task[t].pc = "get_meta"
            /\ Absent(task[t].key)
            /\ task'[t].pc \notin {"get_meta", "idle"}
            /\ task'[t].err \notin AwaitPcs)
           => /\ task'[t].pc = "done"
              /\ task'[t].status = 404
              /\ UNCHANGED <<meta, blob, tmpRoot, tmpDir>>
        /\ (task[t].pc = "get_open" /\ task'[t].pc = "done") => task'[t].status # 404

\* C11: the step that answers a GET of a key without a .meta file, or of a
\* key whose latest version is a tombstone, goes from the read of the
\* document straight to the answer 404: no blob is opened and no file is
\* changed; a GET that has opened a blob is never answered 404.
C11_AbsentIs404 == [][C11_Fetch]_vars

\* a GET of a key whose latest version is a tombstone has been answered 404
C11_Witness ==
    \E t \in Tasks :
        /\ task[t].pc = "done" /\ task[t].method = "GET" /\ task[t].status = 404
        /\ meta[task[t].key] # NoFile
        /\ deleted(meta[task[t].key])
        /\ blob[task[t].key][0] # NoFile

\* the files of the storage root, and the count of the PUTs that reached it
Storage == <<meta, blob, tmpRoot, tmpDir, puts>>

C12_Refused ==
    \A t \in Tasks :
        (/\ task[t].pc = "idle"
         /\ task'[t].pc # "idle"
         /\ hyp_method(task'[t].req.method) # Null
         /\ Validated(task'[t].req).tag \in {"Invalid", "Unsupported"})
        => /\ task'[t].pc = "done"
           /\ task'[t].status = 403
           /\ task'[t].temp = 0 /\ task'[t].meta_temp = 0
           /\ task'[t].fed = 0 /\ task'[t].put = 0
           /\ UNCHANGED Storage

\* C12: a request of a known method whose validation is Invalid or
\* Unsupported is answered 403 in the step that takes it: no temporary file
\* is created, no blob and no .meta file is written, nothing of the body is
\* read, and the request is no PUT of the store.
C12_InvalidIs403 == [][C12_Refused]_vars

\* a PUT with a wrong signature was answered 403 while the store holds an
\* object
C12_Witness ==
    \E t \in Tasks :
        /\ task[t].pc = "done" /\ task[t].status = 403
        /\ task[t].req.method = "PUT"
        /\ Validated(task[t].req) = Invalid
        /\ \E k \in Keys : meta[k] # NoFile

\* C13: every request whose method is neither GET nor PUT is answered 405.
C13_OtherIs405 ==
    \A t \in Tasks :
        (/\ task[t].pc = "done"
         /\ task[t].req # Null
         /\ task[t].req.method \notin {"GET", "PUT"})
        => task[t].status = 405

\* the request has its bucket in the Host header: a host of two or more parts
HostStyle(req) == first_dns_part(hyp_headers(req)["host"]) # Null

\* C18: a request of a known method, anonymous or validated as Valid, whose
\* host has two or more parts is resolved to the first part of the host as
\* the bucket and to its whole path as the object path.
C18_HostBucket ==
    \A t \in Tasks :
        (/\ task[t].pc = "done"
         /\ task[t].req # Null
         /\ hyp_method(task[t].req.method) # Null
         /\ Validated(task[t].req).tag \in {"Anonymous", "Valid"}
         /\ HostStyle(task[t].req))
        => task[t].route =
               Some([bucket |-> first_dns_part(hyp_headers(task[t].req)["host"]).some,
                     path |-> task[t].req.path])

\* C19: in one run of the process the signal handler sends at most one
\* shutdown message, a signal is only ignored once the handler has given its
\* sender away, and the server begins at most one graceful shutdown.
C19_OneShutdown ==
    /\ server.sent <= 1
    /\ server.shutdowns <= 1
    /\ server.ignored => ~server.on_signal

\* a second signal was ignored after the first one's message began the
\* shutdown
C19_Witness ==
    /\ server.ignored
    /\ server.sent = 1
    /\ server.shutdowns = 1
    /\ server.state = "draining"

\* a call of validate that has returned
Validating == call # Null /\ call.fn = "validate" /\ call.out # Null

\* the captured fields of the call's authorization header, when it has them
Parsed ==
    /\ "authorization" \in DOMAIN call.headers
    /\ call.headers["authorization"].fields \notin {Null, RegexCheckedDate}

SignedNames ==
    LET signed_headers == call.headers["authorization"].fields.signed_headers
    IN  {signed_headers[i] : i \in 1..Len(signed_headers)}

\* C14: when validate returns Valid, the access key is the one of the
\* Credential, the signature of the header is the one computed for the
\* request with the secret looked up for that key, and the headers returned
\* are the signed headers with their values in the request and no others;
\* when a signed header is not in the request, validate does not return Valid
\* or Anonymous, and returns Invalid unless an earlier check gave Unsupported.
C14_ValidMeansSigned ==
    Validating =>
        /\ call.out.tag = "Valid" =>
              LET parts == call.headers["authorization"].fields
              IN  /\ call.out.access_key = parts.access_key
                  /\ DOMAIN call.out.headers = SignedNames
                  /\ \A n \in SignedNames : call.out.headers[n] = call.headers[n]
                  /\ "authorization" \notin DOMAIN call.out.headers
                  /\ parts.signature =
                         Signature(call.url, call.method, call.headers["x-amz-date"],
                                   parts.access_key, SecretKeys[parts.access_key],
                                   [n \in SignedNames |-> call.headers[n]])
        /\ (Parsed /\ ~(SignedNames \subseteq DOMAIN call.headers)) =>
              /\ call.out.tag \in {"Invalid", "Unsupported"}
              /\ (call.headers["authorization"].fields.region = "us-east-1"
                     => call.out = Invalid)

\* the canned request was validated, and its unsigned headers were dropped
C14_Witness ==
    /\ Validating
    /\ call.out.tag = "Valid"
    /\ DOMAIN call.out.headers = {"host", "x-amz-acl", "x-amz-date"}
    /\ "accept-encoding" \in DOMAIN call.headers

\* the days between the credential date and the date of `now`
Skew ==
    LET valid_date == call.headers["authorization"].fields.valid_date
    IN  IF valid_date < call.now.day THEN call.now.day - valid_date
        ELSE valid_date - call.now.day

\* the request passes every check of validate but, perhaps, the skew check
SignedRight ==
    LET parts == call.headers["authorization"].fields
    IN  /\ parts.region = "us-east-1" /\ parts.service = "s3"
        /\ SignedNames \subseteq DOMAIN call.headers
        /\ Cardinality(SignedNames) = Len(parts.signed_headers)
        /\ parts.signature.secret = SecretKeys[parts.access_key]

\* C15: validate returns Invalid when the credential date is 3 days or more
\* from the date of `now`, whatever the time of day of `now`; a request that
\* is right in everything else is Valid when the dates are 0, 1 or 2 days
\* apart.
C15_ClockSkew ==
    (Validating /\ Parsed /\ call.headers["authorization"].v4) =>
        /\ Skew > 2 => call.out = Invalid
        /\ (Skew <= 2 /\ SignedRight) => call.out.tag = "Valid"

\* a credential date 2 days ahead was accepted one second before midnight
C15_Witness ==
    /\ Validating /\ Parsed
    /\ call.out.tag = "Valid"
    /\ call.headers["authorization"].fields.valid_date = call.now.day + 2
    /\ call.now.secs = 86399

\* C16: the key access_key_for issues has 30 characters of the alphabet and
\* begins with "S1", and parse_access of the same MasterKey returns the role
\* id it was issued for, whatever the random bytes.
C16_IssuedKeyParses ==
    (call # Null /\ call.fn = "access_key_for" /\ call.out # Null) =>
        /\ Len(call.out.some) = 30
        /\ call.out.some[1] = CharS /\ call.out.some[2] = Char1
        /\ \A i \in 1..Len(call.out.some) : call.out.some[i] \in 0..63
        /\ (call.back # Null /\ call.parser = call.self) =>
               call.back = [ok |-> call.role_id]

\* a key issued with random bytes that are not 0 was parsed back
C16_Witness ==
    /\ call # Null /\ call.fn = "access_key_for"
    /\ call.back = [ok |-> call.role_id]
    /\ call.role_id[12] = 7
    /\ call.out.some[30] # 0

\* what parse_access is to return for a key, check by check
Expected(self, key) ==
    IF Len(key) # 30 THEN [err |-> "invalid length"]
    ELSE IF key[1] # CharS \/ key[2] # Char1 THEN [err |-> "invalid format / version"]
    ELSE IF \E i \in 3..30 : key[i] \notin 0..63 THEN [err |-> "invalid encoding"]
    ELSE IF Decode(SubSeq(key, 3, 6)) # self.id THEN [err |-> "not issued by us"]
    ELSE [ok |-> SubSeq(Decode(SubSeq(key, 3, 30)), 4, 15)]

\* C17: parse_access returns the error of the first check that fails, in the
\* order length, prefix, encoding, master id, and Ok when none fails; a key
\* issued by a MasterKey of another id is answered 'not issued by us'.
C17_ParseOrder ==
    /\ (call # Null /\ call.fn = "parse_access" /\ call.out # Null) =>
           call.out = Expected(call.self, call.key)
    /\ (call # Null /\ call.fn = "access_key_for" /\ call.back # Null
            /\ call.parser.id # call.self.id) =>
           call.back = [err |-> "not issued by us"]

\* a key that is too short and has another prefix was answered
\* 'invalid length'
C17_Witness ==
    /\ call # Null /\ call.fn = "parse_access"
    /\ Len(call.key) = 29 /\ call.key[2] = Char2
    /\ call.out = [err |-> "invalid length"]

LowerOrDigit == AsciiLowercase \cup AsciiDigit

\* a call of valid_bucket_name that has returned
Named == call # Null /\ call.fn = "valid_bucket_name" /\ call.out # Null

\* C21: valid_bucket_name accepts a name exactly when its length is between
\* 3 and 63, its first and its last character are in [a-z0-9], every
\* character is in [a-z0-9.-], and no two dots are next to each other.
C21_ValidBucketName ==
    Named =>
        LET name == call.name
        IN  call.out.some <=>
                /\ Len(name) \in 3..63
                /\ name[1] \in LowerOrDigit
                /\ name[Len(name)] \in LowerOrDigit
                /\ {name[i] : i \in 1..Len(name)} \subseteq LowerOrDigit \cup {".", "-"}
                /\ ~\E i \in 1..(Len(name) - 1) : SubSeq(name, i, i + 1) = <<".", ".">>

\* a name of 63 characters with a dot and a hyphen inside was accepted
C21_Witness ==
    /\ Named
    /\ call.out.some
    /\ Len(call.name) = 63
    /\ {".", "-"} \subseteq {call.name[i] : i \in 1..Len(call.name)}

\* C22: the comparison of the signature of the header with the computed one
\* reads every character of the two, however many leading characters match,
\* so that the time it takes tells nothing of the computed signature.
C22_ConstantTime ==
    (call # Null /\ call.fn = "signature_ne" /\ call.out # Null) =>
        call.out.compared = SignatureLen

\* C23: when the name new_in tries first is taken, new_in goes on with
\* another name directly inside the same directory: either it creates a
\* file under a name of the directory that was free, or it gives up after
\* 256 attempts.
C23_RetriesOnCollision ==
    (call # Null /\ call.fn = "new_in" /\ call.out # Null
        /\ call.dir[call.out.some.cand] # NoFile) =>
        LET made == call.out.some.made
        IN  \/ /\ made.result = "created"
               /\ Len(made.path) = 1
               /\ call.dir[made.path[1]] = NoFile
            \/ /\ made.result = "gave up"
               /\ made.attempts = Attempts

\* what the checks of validate, taken in the order of the claim, give for
\* the call: the outcome of the first that fails, Valid when none does
FirstFailingCheck ==
    LET headers == call.headers
    IN  IF "authorization" \notin DOMAIN headers THEN Anonymous(headers)
        ELSE IF "x-amz-date" \notin DOMAIN headers THEN Invalid
        ELSE IF ~headers["x-amz-date"].ok THEN Invalid
        ELSE IF ~headers["authorization"].v4 THEN Unsupported
        ELSE IF ~Parsed THEN Invalid
        ELSE IF Skew > 2 THEN Invalid
        ELSE IF headers["authorization"].fields.region # "us-east-1" THEN Unsupported
        ELSE IF headers["authorization"].fields.service # "s3" THEN Unsupported
        ELSE IF ~(SignedNames \subseteq DOMAIN headers) THEN Invalid
        ELSE IF Cardinality(SignedNames) # Len(headers["authorization"].fields.signed_headers)
        THEN Invalid
        ELSE IF headers["authorization"].fields.signature #
                    Signature(call.url, call.method, headers["x-amz-date"],
                              headers["authorization"].fields.access_key,
                              SecretKeys[headers["authorization"].fields.access_key],
                              [n \in SignedNames |-> headers[n]])
        THEN Invalid
        ELSE Valid(headers["authorization"].fields.access_key,
                   [n \in SignedNames |-> headers[n]])

\* C24: the outcome of validate is that of the first check that fails, in
\* this order: no authorization header, Anonymous with the headers of the
\* request; x-amz-date missing or not a date, Invalid; another scheme than
\* AWS4-HMAC-SHA256, Unsupported; a header that is not of the grammar,
\* Invalid; clock skew, Invalid; another region or service, Unsupported; a
\* signed header that is missing, Invalid; another signature, Invalid.
C24_FirstFailingCheck == Validating => call.out = FirstFailingCheck

\* the step renames the blob temp file of task t to its target
PersistedBlob(t) == task[t].pc = "persist_blob" /\ task'[t].pc = "persist_meta"

\* the step renames the metadata temp file of task t to its target
PersistedMeta(t) == task[t].pc = "persist_meta" /\ task'[t].pc = "respond"

\* the persist of task t fails at pc, and the error is returned
PersistFailed(t, pc) == task[t].pc = pc /\ task'[t].pc = "done" /\ task'[t].err = pc

\* C25: a persist that succeeds leaves the file at the target and the
\* handle without a file, so that no drop and no later step unlinks the
\* target or the old temporary name: a file is only ever taken away under a
\* temporary name, by the request that created it.  A persist that fails
\* finds the temporary file still there, changes no target, and the drop of
\* the handle the error carries unlinks the temporary file.
C25_PersistOnce ==
    [][/\ \A t \in Tasks :
            LET r == task[t]
            IN  /\ PersistedBlob(t) =>
                      /\ tmpRoot[r.temp] # NoFile
                      /\ blob'[r.key][r.new_version] = tmpRoot[r.temp]
                      /\ tmpRoot'[r.temp] = NoFile
                      /\ task'[t].temp = 0
                /\ PersistedMeta(t) =>
                      /\ tmpDir[r.key][r.meta_temp] # NoFile
                      /\ meta'[r.key] = tmpDir[r.key][r.meta_temp].doc
                      /\ tmpDir'[r.key][r.meta_temp] = NoFile
                      /\ task'[t].meta_temp = 0
                /\ PersistFailed(t, "persist_blob") =>
                      /\ tmpRoot[r.temp] # NoFile
                      /\ tmpRoot'[r.temp] = NoFile
                      /\ blob' = blob /\ meta' = meta
                /\ PersistFailed(t, "persist_meta") =>
                      /\ tmpDir[r.key][r.meta_temp] # NoFile
                      /\ tmpDir'[r.key][r.meta_temp] = NoFile
                      /\ blob' = blob /\ meta' = meta
       /\ \A k \in Keys : meta[k] # NoFile => meta'[k] # NoFile
       /\ \A k \in Keys, n \in Versions : blob[k][n] # NoFile => blob'[k][n] # NoFile
       /\ \A c \in Cands :
            (tmpRoot[c] # NoFile /\ tmpRoot'[c] = NoFile) =>
                \E t \in Tasks : /\ task[t].temp = c
                                  /\ task[t].put = tmpRoot[c].by
                                  /\ task'[t] # task[t]
       /\ \A k \in Keys, c \in Cands :
            (tmpDir[k][c] # NoFile /\ tmpDir'[k][c] = NoFile) =>
                \E t \in Tasks : /\ task[t].meta_temp = c /\ task[t].key = k
                                  /\ task[t].put = tmpDir[k][c].by
                                  /\ task'[t] # task[t]]_vars

\* a PUT whose blob was persisted and whose metadata persist failed: the
\* blob is at its target, and no temporary file is left under any name
C25_Witness ==
    \E t \in Tasks :
        /\ task[t].pc = "done"
        /\ task[t].err = "persist_meta"
        /\ blob[task[t].key][task[t].new_version] # NoFile
        /\ \A c \in Cands : tmpRoot[c] = NoFile /\ tmpDir[task[t].key][c] = NoFile

C27_ShutdownOnlyBySignal ==
    server.state \in {"draining", "exited"} => server.sent > 0

\* the characters of a string
Chars(str) == {str[i] : i \in 1..Len(str)}

\* the host has two dot-separated parts or more
TwoParts(host_header) == host_header # Null /\ "." \in Chars(host_header.some)

\* the path has a '/' after its first character
TwoSegments(path) == \E i \in 2..Len(path) : path[i] = "/"

\* C28: for a host of two dot-separated parts or more, bucket_name gives the
\* first label of the host and the path as it is; otherwise, for a path with
\* a '/' after its first character, the segment between the first character
\* and that '/', and the rest of the path from that '/' on; otherwise None.
C28_BucketName ==
    (call # Null /\ call.fn = "bucket_name" /\ call.out # Null) =>
        LET host == call.host_header
            path == call.path
            out == call.out.some
        IN  IF TwoParts(host)
            THEN /\ out # Null
                 /\ out.some.path = path
                 /\ "." \notin Chars(out.some.bucket)
                 /\ \E rest \in {SubSeq(host.some, i, Len(host.some)) :
                                     i \in 1..(Len(host.some) + 1)} :
                        host.some = out.some.bucket \o <<".">> \o rest
            ELSE IF TwoSegments(path)
            THEN /\ out # Null
                 /\ "/" \notin Chars(out.some.bucket)
                 /\ Head(out.some.path) = "/"
                 /\ path = <<Head(path)>> \o out.some.bucket \o out.some.path
            ELSE out = Null

\* the bucket came from the path, as the host had one part only
C28_Witness ==
    /\ call # Null /\ call.fn = "bucket_name" /\ call.out # Null
    /\ call.host_header = Some(<<"f", "o", "o">>)
    /\ call.out.some = Some([bucket |-> <<"p", "l", "a", "n", "t", "s">>,
                             path |-> <<"/", "g", "r", "e", "e", "n", "s">>])

=============================================================================
